---- MODULE Spec2Model ----
(***************************************************************************)
(* Session state engine of Rudra AI 2.0: the reducer of                    *)
(* src/src/state/session/store.tsx, the tab factory, normalizeTab, the     *)
(* save effect of SessionProvider and the persistence gateway              *)
(* (loadSessionSnapshot / saveSessionSnapshot).                            *)
(*                                                                         *)
(* A Tab is modelled by the fields the reducer reads or writes: id, url,   *)
(* active, status, groupId, assistantOpen, chatHistory, history,           *)
(* historyIndex, lastActiveAt.  A history entry is modelled by its url.    *)
(* Array positions are those of TLA+ sequences (1-based); historyIndex and *)
(* the findIndex result keep the 0-based values of the code.               *)
(*                                                                         *)
(* Object identity: the reducer returns either the State object it was     *)
(* given or a new one; sameRef records which.  Entries of recentlyClosed   *)
(* carry a ref, the identity TAB_REOPEN compares with !==.                 *)
(*                                                                         *)
(* hydration is the position of the hydrate effect of SessionProvider:     *)
(* "loading" while loadSessionSnapshot is pending, "done" once the effect  *)
(* has dispatched SESSION_REHYDRATE or SESSION_READY, "failed" when the    *)
(* reducer threw on the action it dispatched, "cancelled" when the         *)
(* provider was torn down while the load was pending, "unmounted" once a   *)
(* torn-down provider has nothing pending.                                 *)
(*                                                                         *)
(* bridge tells which transport the gateway finds: the session bridge of   *)
(* the main process (writeSession, an IPC call answered by fs.writeFile)   *)
(* or localStorage.  writes holds the snapshots handed to the bridge whose *)
(* fs.writeFile has not completed, in the order the saves started.         *)
(***************************************************************************)
EXTENDS Integers, Sequences, FiniteSets, TLC

VARIABLES state, tabSequence, now, store, sameRef, saveIssued, last, hydration,
          bridge, writes

vars == <<state, tabSequence, now, store, sameRef, saveIssued, last, hydration,
          bridge, writes>>

----------------------------------------------------------------------------
(* Bounds of the model *)

MaxTabs == 2
MaxTabSequence == 2
MaxNow == 1
MaxHistory == 2
MaxChat == 1
MaxReorderIds == 2
MaxWrites == 2
MaxOldTabs == 3

----------------------------------------------------------------------------
(* Program constants *)

SESSION_STATE_VERSION == 1
RECENTLY_CLOSED_LIMIT == 15
SUGGESTION_LIMIT == 24

DEFAULT_HOME_URL == "about:blank"
DefaultTabId == "tab-1"
Null == "null"

TabStatus == {"normal", "pinned", "sleeping"}
Urls == {DEFAULT_HOME_URL, "https://a"}
GroupIds == {"g1"}

\* ids generateTabId can return, in the order it returns them
TabIdPool == <<"tab-t-1", "tab-t-2", "tab-t-3", "tab-t-4">>
\* the id of a tab an earlier run closed
OldTabId == "tab-old"
\* an id no tab ever has: the target of an action that lost a race with a close
UnknownTabId == "tab-gone"
TabIds == {DefaultTabId, UnknownTabId} \cup {TabIdPool[i] : i \in 1..MaxTabSequence}

----------------------------------------------------------------------------
(* Array helpers *)

Map(f(_), seq) == [i \in DOMAIN seq |-> f(seq[i])]

Filter(p(_), seq) == SelectSeq(seq, p)

Some(p(_), seq) == \E i \in DOMAIN seq : p(seq[i])

\* Array.prototype.slice(0, n)
Slice0(seq, n) == SubSeq(seq, 1, IF n < Len(seq) THEN n ELSE Len(seq))

\* Array.prototype.findIndex by tab id: 0-based, -1 when absent
FindIndex(tabs, tabId) ==
  IF \E i \in DOMAIN tabs : tabs[i].id = tabId
    THEN (CHOOSE i \in DOMAIN tabs :
            tabs[i].id = tabId /\ \A j \in 1..(i - 1) : tabs[j].id # tabId) - 1
    ELSE -1

Includes(ids, id) == \E i \in DOMAIN ids : ids[i] = id

----------------------------------------------------------------------------
(* Tab factory *)

createBlankTab(id, options, createdAt) ==
  [ id            |-> id,
    url           |-> options.url,
    chatHistory   |-> <<>>,
    assistantOpen |-> FALSE,
    active        |-> FALSE,
    status        |-> options.status,
    groupId       |-> options.groupId,
    history       |-> << [url |-> options.url] >>,
    historyIndex  |-> 0,
    lastActiveAt  |-> createdAt ]

\* options ?? defaults of createBlankTab
DefaultOptions == [url |-> DEFAULT_HOME_URL, status |-> "normal", groupId |-> Null]

defaultTab == [createBlankTab(DefaultTabId, DefaultOptions, 0) EXCEPT !.active = TRUE]

defaultSettings ==
  [ blockAds |-> TRUE,
    permissionPolicy |-> [camera |-> "ask", microphone |-> "ask"] ]

defaultState ==
  [ tabs              |-> <<defaultTab>>,
    activeTabId       |-> defaultTab.id,
    tabGroups         |-> {},
    recentlyClosed    |-> << >>,
    suggestionHistory |-> << >>,
    settings          |-> defaultSettings,
    version           |-> SESSION_STATE_VERSION,
    hydrated          |-> FALSE ]

\* a snapshot that forgets the status of the tab
toSnapshot_ForgetsStatus(tab) ==
  [f \in DOMAIN tab \ {"active"} |-> IF f = "status" THEN "normal" ELSE tab[f]]

\* const { active, ...rest } = tab
toSnapshot(tab) == [f \in DOMAIN tab \ {"active"} |-> tab[f]]

applyActiveState(tabs, activeTabId, timestamp) ==
  [i \in DOMAIN tabs |->
     IF tabs[i].id = activeTabId
       THEN [tabs[i] EXCEPT !.active = TRUE, !.lastActiveAt = timestamp]
       ELSE IF ~tabs[i].active THEN tabs[i]
       ELSE [tabs[i] EXCEPT !.active = FALSE]]

----------------------------------------------------------------------------
(* Rehydration / normalization                                             *)
(* A raw tab is a tab parsed from JSON; any of status, groupId,            *)
(* chatHistory, history, historyIndex may be absent from it.  An absent    *)
(* field stands for every value the test in the code rejects: undefined or *)
(* null for ??, a non-array for Array.isArray, a non-number for typeof.    *)

Has(rec, field) == field \in DOMAIN rec

\* normalizeTab that keeps whatever historyIndex the raw tab carries
normalizeTab_KeepsIndex(raw) ==
  LET status == IF Has(raw, "status") THEN raw.status ELSE "normal"
      history ==
        IF Has(raw, "history") /\ Len(raw.history) > 0
          THEN raw.history
          ELSE << [url |-> raw.url] >>
      historyIndex ==
        IF Has(raw, "historyIndex")
          THEN raw.historyIndex
          ELSE Len(history) - 1
  IN  [ status       |-> status,
        groupId      |-> IF Has(raw, "groupId") THEN raw.groupId ELSE Null,
        chatHistory  |-> IF Has(raw, "chatHistory") THEN raw.chatHistory ELSE << >>,
        history      |-> history,
        historyIndex |-> historyIndex ] @@ raw

normalizeTab(raw) ==
  LET status == IF Has(raw, "status") THEN raw.status ELSE "normal"
      history ==
        IF Has(raw, "history") /\ Len(raw.history) > 0
          THEN raw.history
          ELSE << [url |-> raw.url] >>
      historyIndex ==
        IF Has(raw, "historyIndex")
             /\ raw.historyIndex >= 0 /\ raw.historyIndex < Len(history)
          THEN raw.historyIndex
          ELSE Len(history) - 1
  IN  [ status       |-> status,
        groupId      |-> IF Has(raw, "groupId") THEN raw.groupId ELSE Null,
        chatHistory  |-> IF Has(raw, "chatHistory") THEN raw.chatHistory ELSE << >>,
        history      |-> history,
        historyIndex |-> historyIndex ] @@ raw

----------------------------------------------------------------------------
(* Session reducer.  Every case yields the next State and whether it is    *)
(* the very object it was given (same) or a newly built one.               *)

Same(s) == [st |-> s, same |-> TRUE]
Fresh(s) == [st |-> s, same |-> FALSE]

Deactivate(tab) == IF tab.active THEN [tab EXCEPT !.active = FALSE] ELSE tab

TabAdd(s, tab, makeActive, ts) ==
  LET tabs == Map(Deactivate, s.tabs)
      newTab == IF makeActive
                  THEN [tab EXCEPT !.active = TRUE, !.lastActiveAt = ts]
                  ELSE tab
  IN  Fresh([s EXCEPT !.tabs = Append(tabs, newTab),
                      !.activeTabId = IF makeActive THEN newTab.id ELSE @])

\* TAB_SET_ACTIVE without the test for the tab that is active already
TabSetActive_NoShortCircuit(s, tabId, ts) ==
  IF ~Some(LAMBDA tab : tab.id = tabId, s.tabs) THEN Same(s)
  ELSE Fresh([s EXCEPT !.tabs = applyActiveState(s.tabs, tabId, ts),
                       !.activeTabId = tabId])

TabSetActive(s, tabId, ts) ==
  IF s.activeTabId = tabId THEN Same(s)
  ELSE IF ~Some(LAMBDA tab : tab.id = tabId, s.tabs) THEN Same(s)
  ELSE Fresh([s EXCEPT !.tabs = applyActiveState(s.tabs, tabId, ts),
                       !.activeTabId = tabId])

\* TAB_PATCH that cuts the history in front of the current entry
PatchHistory_DropsCurrent(tab, patch) ==
  IF Has(patch, "url") /\ patch.url # "" /\ patch.url # tab.url
    THEN Append(Slice0(tab.history, tab.historyIndex), [url |-> patch.url])
    ELSE tab.history

\* the history a TAB_PATCH gives a tab
PatchHistory(tab, patch) ==
  IF Has(patch, "url") /\ patch.url # "" /\ patch.url # tab.url
    THEN Append(Slice0(tab.history, tab.historyIndex + 1), [url |-> patch.url])
    ELSE tab.history

\* a TAB_PATCH that lets the patch write the history fields
PatchOne_PatchWins(tab, patch) ==
  LET nextHistory == PatchHistory(tab, patch)
      urlChanged == Has(patch, "url") /\ patch.url # "" /\ patch.url # tab.url
      nextHistoryIndex == IF ~urlChanged THEN tab.historyIndex
                          ELSE Len(nextHistory) - 1
  IN  patch @@ [ history |-> nextHistory, historyIndex |-> nextHistoryIndex ]
        @@ tab

PatchOne(tab, patch) ==
  LET nextHistory == PatchHistory(tab, patch)
      urlChanged == Has(patch, "url") /\ patch.url # "" /\ patch.url # tab.url
      nextHistoryIndex == IF ~urlChanged THEN tab.historyIndex
                          ELSE Len(nextHistory) - 1
  IN  [ history |-> nextHistory, historyIndex |-> nextHistoryIndex ]
        @@ patch @@ tab

TabPatch(s, tabId, patch) ==
  LET changed == Some(LAMBDA tab : tab.id = tabId, s.tabs)
      nextTabs == Map(LAMBDA tab : IF tab.id # tabId THEN tab
                                   ELSE PatchOne(tab, patch), s.tabs)
  IN  IF ~changed THEN Same(s) ELSE Fresh([s EXCEPT !.tabs = nextTabs])

TabSetAssistant(s, tabId, open) ==
  LET nextTabs == Map(LAMBDA tab :
                        IF tab.id # tabId THEN tab
                        ELSE IF tab.assistantOpen = open THEN tab
                        ELSE [tab EXCEPT !.assistantOpen = open], s.tabs)
  IN  Fresh([s EXCEPT !.tabs = nextTabs])

TabAppendChat(s, tabId, message) ==
  LET nextTabs == Map(LAMBDA tab :
                        IF tab.id # tabId THEN tab
                        ELSE [tab EXCEPT !.chatHistory = Append(@, message)],
                      s.tabs)
  IN  Fresh([s EXCEPT !.tabs = nextTabs])

TabSetStatus(s, tabId, status) ==
  LET nextTabs == Map(LAMBDA tab :
                        IF tab.id # tabId THEN tab
                        ELSE IF tab.status = status THEN tab
                        ELSE [tab EXCEPT !.status = status], s.tabs)
  IN  Fresh([s EXCEPT !.tabs = nextTabs])

TabAssignGroup(s, tabId, groupId) ==
  LET nextTabs == Map(LAMBDA tab :
                        IF tab.id = tabId THEN [tab EXCEPT !.groupId = groupId]
                        ELSE tab, s.tabs)
  IN  Fresh([s EXCEPT !.tabs = nextTabs])

\* a ref no entry of the list carries: the identity of a new entry object
NewRef(entries) ==
  CHOOSE r \in 1..(Len(entries) + 1) :
    /\ \A i \in DOMAIN entries : entries[i].ref # r
    /\ \A q \in 1..(r - 1) : \E i \in DOMAIN entries : entries[i].ref = q

\* TAB_CLOSE that refuses only when no tab is left
TabClose_ClosesLastTab(s, tabId, reason, ts) ==
  IF Len(s.tabs) < 1 THEN Same(s)
  ELSE
    LET index == FindIndex(s.tabs, tabId) IN
    IF index = -1 THEN Same(s)
    ELSE
      LET removedTab == s.tabs[index + 1]
          remainingTabs == Filter(LAMBDA tab : tab.id # removedTab.id, s.tabs)
          \* remainingTabs[index - 1] ?? remainingTabs[0] ?? null
          fallbackId ==
            IF index - 1 >= 0 /\ index - 1 < Len(remainingTabs)
              THEN remainingTabs[index].id
            ELSE IF Len(remainingTabs) > 0 THEN remainingTabs[1].id
            ELSE Null
          nextActiveId == IF removedTab.id = s.activeTabId THEN fallbackId
                          ELSE s.activeTabId
          nextTabs == applyActiveState(remainingTabs, nextActiveId, ts)
          entry == [ tab      |-> toSnapshot([removedTab EXCEPT !.active = FALSE]),
                     closedAt |-> ts,
                     reason   |-> reason,
                     ref      |-> NewRef(s.recentlyClosed) ]
          recentlyClosed ==
            Slice0(<<entry>> \o s.recentlyClosed, RECENTLY_CLOSED_LIMIT)
      IN  Fresh([s EXCEPT !.tabs = nextTabs,
                          !.activeTabId = nextActiveId,
                          !.recentlyClosed = recentlyClosed])

TabClose(s, tabId, reason, ts) ==
  IF Len(s.tabs) <= 1 THEN Same(s)
  ELSE
    LET index == FindIndex(s.tabs, tabId) IN
    IF index = -1 THEN Same(s)
    ELSE
      LET removedTab == s.tabs[index + 1]
          remainingTabs == Filter(LAMBDA tab : tab.id # removedTab.id, s.tabs)
          \* remainingTabs[index - 1] ?? remainingTabs[0] ?? null
          fallbackId ==
            IF index - 1 >= 0 /\ index - 1 < Len(remainingTabs)
              THEN remainingTabs[index].id
            ELSE IF Len(remainingTabs) > 0 THEN remainingTabs[1].id
            ELSE Null
          nextActiveId == IF removedTab.id = s.activeTabId THEN fallbackId
                          ELSE s.activeTabId
          nextTabs == applyActiveState(remainingTabs, nextActiveId, ts)
          entry == [ tab      |-> toSnapshot([removedTab EXCEPT !.active = FALSE]),
                     closedAt |-> ts,
                     reason   |-> reason,
                     ref      |-> NewRef(s.recentlyClosed) ]
          recentlyClosed ==
            Slice0(<<entry>> \o s.recentlyClosed, RECENTLY_CLOSED_LIMIT)
      IN  Fresh([s EXCEPT !.tabs = nextTabs,
                          !.activeTabId = nextActiveId,
                          !.recentlyClosed = recentlyClosed])

\* ids.map(id => idToTab.get(id)).filter(Boolean); a Map built from entries
\* with equal keys keeps the last one
Collect(tabs, ids) ==
  LET known == Filter(LAMBDA id : Some(LAMBDA tab : tab.id = id, tabs), ids)
      Get(id) == tabs[CHOOSE i \in DOMAIN tabs :
                        tabs[i].id = id
                        /\ \A j \in (i + 1)..Len(tabs) : tabs[j].id # id]
  IN  Map(Get, known)

TabReorder(s, pinnedIds, regularIds, ts) ==
  LET pinnedTabs == Map(LAMBDA tab : IF tab.status = "pinned" THEN tab
                                     ELSE [tab EXCEPT !.status = "pinned"],
                        Collect(s.tabs, pinnedIds))
      regularTabs == Map(LAMBDA tab : IF tab.status = "pinned"
                                        THEN [tab EXCEPT !.status = "normal"]
                                        ELSE tab,
                         Collect(s.tabs, regularIds))
      leftovers == Filter(LAMBDA tab : ~Includes(pinnedIds, tab.id)
                                       /\ ~Includes(regularIds, tab.id), s.tabs)
      merged == pinnedTabs \o regularTabs \o leftovers
  IN  Fresh([s EXCEPT !.tabs = applyActiveState(merged, s.activeTabId, ts)])

\* TAB_REOPEN that takes the newest entry whatever the payload names
TabReopen_IgnoresEntry(s, payload, ts) ==
  IF Len(s.recentlyClosed) = 0 THEN Same(s)
  ELSE
    LET entry == s.recentlyClosed[1]
        restoredTab == normalizeTab([active |-> FALSE] @@ entry.tab)
        mutedTabs == Map(Deactivate, s.tabs)
        restoredActive == [restoredTab EXCEPT !.active = TRUE, !.lastActiveAt = ts]
    IN  Fresh([s EXCEPT !.tabs = Append(mutedTabs, restoredActive),
                        !.activeTabId = restoredActive.id,
                        !.recentlyClosed =
                           Filter(LAMBDA rc : rc.ref # entry.ref, @)])

\* payload is [entry |-> e] or has no entry field
TabReopen(s, payload, ts) ==
  IF ~Has(payload, "entry") /\ Len(s.recentlyClosed) = 0 THEN Same(s)
  ELSE
    LET entry == IF Has(payload, "entry") THEN payload.entry
                 ELSE s.recentlyClosed[1]
        restoredTab == normalizeTab([active |-> FALSE] @@ entry.tab)
        mutedTabs == Map(Deactivate, s.tabs)
        restoredActive == [restoredTab EXCEPT !.active = TRUE, !.lastActiveAt = ts]
    IN  Fresh([s EXCEPT !.tabs = Append(mutedTabs, restoredActive),
                        !.activeTabId = restoredActive.id,
                        !.recentlyClosed =
                           Filter(LAMBDA rc : rc.ref # entry.ref, @)])

\* A suggestion is a string, modelled as the sequence of its characters.
\* String.prototype.trim
RECURSIVE TrimStart(_)
TrimStart(v) == IF v # << >> /\ Head(v) = " " THEN TrimStart(Tail(v)) ELSE v

RECURSIVE TrimEnd(_)
TrimEnd(v) ==
  IF v # << >> /\ v[Len(v)] = " " THEN TrimEnd(SubSeq(v, 1, Len(v) - 1)) ELSE v

Trim(v) == TrimEnd(TrimStart(v))

\* String.prototype.toLowerCase, on the letters the model uses
LowerChar(c) ==
  CASE c = "A" -> "a" [] c = "B" -> "b" [] c = "S" -> "s" [] OTHER -> c

ToLowerCase(v) == Map(LowerChar, v)

\* SUGGESTION_ADD that compares the entries as they are
SuggestionAdd_CaseSensitive(s, value) ==
  LET trimmed == Trim(value)
      filtered == Filter(LAMBDA suggestion : suggestion # trimmed,
                         s.suggestionHistory)
  IN  IF trimmed = << >> THEN Same(s)
      ELSE Fresh([s EXCEPT !.suggestionHistory =
                     Slice0(<<trimmed>> \o filtered, SUGGESTION_LIMIT)])

SuggestionAdd(s, value) ==
  LET trimmed == Trim(value)
      normalized == ToLowerCase(trimmed)
      filtered == Filter(LAMBDA suggestion : ToLowerCase(suggestion) # normalized,
                         s.suggestionHistory)
  IN  IF trimmed = << >> THEN Same(s)
      ELSE Fresh([s EXCEPT !.suggestionHistory =
                     Slice0(<<trimmed>> \o filtered, SUGGESTION_LIMIT)])

\* entries built by a map are new objects: their refs are their positions
WithRefs(entries) == [i \in DOMAIN entries |-> [ref |-> i] @@ entries[i]]

NormalizeEntry(entry) ==
  [ tab |-> [ status  |-> IF Has(entry.tab, "status") THEN entry.tab.status
                          ELSE "normal",
              groupId |-> IF Has(entry.tab, "groupId") THEN entry.tab.groupId
                          ELSE Null ] @@ entry.tab ] @@ entry

SessionRehydrate(s, payload, ts) ==
  LET incoming == payload.state
      normalizedTabs == Map(normalizeTab, incoming.tabs)
      \* an absent activeTabId is undefined and equals no tab id
      hydratedTabs ==
        IF Has(incoming, "activeTabId")
          THEN applyActiveState(normalizedTabs, incoming.activeTabId, ts)
          ELSE Map(Deactivate, normalizedTabs)
      incomingSettings == IF Has(incoming, "settings") THEN incoming.settings
                          ELSE defaultSettings
      incomingPolicy == IF Has(incomingSettings, "permissionPolicy")
                          THEN incomingSettings.permissionPolicy
                          ELSE [f \in {} |-> "ask"]
      normalizedSettings ==
        [permissionPolicy |-> incomingPolicy @@ defaultSettings.permissionPolicy]
          @@ incomingSettings @@ defaultSettings
      normalizedRecentlyClosed ==
        IF Has(incoming, "recentlyClosed")
          THEN WithRefs(Map(NormalizeEntry, incoming.recentlyClosed))
          ELSE << >>
  IN  Fresh([ tabs           |-> hydratedTabs,
              recentlyClosed |-> normalizedRecentlyClosed,
              settings       |-> normalizedSettings,
              hydrated       |-> TRUE ] @@ incoming @@ s)

\* the payloads SESSION_REHYDRATE throws a TypeError on: no state, no tabs to
\* map over, a closed entry without a tab to read status and groupId from
RehydrateThrows(payload) ==
  \/ ~Has(payload, "state")
  \/ ~Has(payload.state, "tabs")
  \/ /\ Has(payload.state, "recentlyClosed")
     /\ \E i \in DOMAIN payload.state.recentlyClosed :
          ~Has(payload.state.recentlyClosed[i], "tab")

SessionReady(s) ==
  IF s.hydrated THEN Same(s) ELSE Fresh([s EXCEPT !.hydrated = TRUE])

\* SESSION_UPDATE_SETTINGS that takes the policy of the payload as a whole
SessionUpdateSettings_ReplacesPolicy(s, payload) ==
  Fresh([s EXCEPT !.settings = payload @@ s.settings])

SessionUpdateSettings(s, payload) ==
  LET nextPermissionPolicy ==
        IF Has(payload, "permissionPolicy")
          THEN payload.permissionPolicy @@ s.settings.permissionPolicy
          ELSE s.settings.permissionPolicy
  IN  Fresh([s EXCEPT !.settings =
                [permissionPolicy |-> nextPermissionPolicy] @@ payload @@ s.settings])

Group(groups, groupId) == CHOOSE g \in groups : g.id = groupId
HasGroup(groups, groupId) == \E g \in groups : g.id = groupId

\* payload.collapsed ?? state.tabGroups[id]?.collapsed ?? false
TabGroupUpsert(s, payload) ==
  LET old == { g \in s.tabGroups : g.id = payload.id }
      collapsed == IF Has(payload, "collapsed") THEN payload.collapsed
                   ELSE IF old # {} THEN Group(s.tabGroups, payload.id).collapsed
                   ELSE FALSE
      base == IF old # {} THEN Group(s.tabGroups, payload.id) ELSE payload
      group == [collapsed |-> collapsed] @@ payload @@ base
  IN  Fresh([s EXCEPT !.tabGroups = (@ \ old) \cup {group}])

TabGroupDelete(s, groupId) ==
  LET rest == { g \in s.tabGroups : g.id # groupId }
      nextTabs == Map(LAMBDA tab : IF tab.groupId = groupId
                                     THEN [tab EXCEPT !.groupId = Null]
                                     ELSE tab, s.tabs)
  IN  Fresh([s EXCEPT !.tabGroups = rest, !.tabs = nextTabs])

TabGroupToggleCollapse(s, groupId) ==
  IF ~HasGroup(s.tabGroups, groupId) THEN Same(s)
  ELSE LET group == Group(s.tabGroups, groupId)
       IN  Fresh([s EXCEPT !.tabGroups =
                     (@ \ {group}) \cup {[group EXCEPT !.collapsed = ~@]}])

\* TAB_CLOSE_ALL that keeps the tabs it removes as closed tabs
TabCloseAll_RecordsClosed(s, newTab) ==
  LET entries == Map(LAMBDA tab : [ tab      |-> toSnapshot(tab),
                                    closedAt |-> 0,
                                    reason   |-> "user",
                                    ref      |-> 0 ], s.tabs)
  IN  Fresh([s EXCEPT !.tabs = <<newTab>>, !.activeTabId = newTab.id,
                      !.recentlyClosed = entries \o @])

TabCloseAll(s, newTab) ==
  Fresh([s EXCEPT !.tabs = <<newTab>>, !.activeTabId = newTab.id])

----------------------------------------------------------------------------
(* Persistence gateway.  The store holds no blob, a blob that is not JSON, *)
(* or the JSON text of a snapshot, modelled by the value it parses to.     *)

NoBlob == [kind |-> "absent"]
Garbage == [kind |-> "garbage"]
\* a blob the read fails on, and the JSON text of something that is no object
Unreadable == [kind |-> "unreadable"]
Scalar == [kind |-> "scalar"]
Blob(snapshot) == [kind |-> "json", snapshot |-> snapshot]

\* JSON.stringify followed by JSON.parse: the data survive, object identity
\* does not
Serialize(snapshot) ==
  [snapshot EXCEPT !.state.recentlyClosed =
     Map(LAMBDA entry : [f \in DOMAIN entry \ {"ref"} |-> entry[f]], @)]

\* saveSessionSnapshot that leaves recentlyClosed out of the snapshot
saveSessionSnapshot_DropsClosed(s, ts) ==
  LET persistable == [f \in DOMAIN s \ {"hydrated", "recentlyClosed"} |-> s[f]]
  IN  Blob([ version |-> SESSION_STATE_VERSION,
             savedAt |-> ts,
             state   |-> persistable ])

\* the text saveSessionSnapshot hands to the store for a State
saveSessionSnapshot(s, ts) ==
  LET persistable == [f \in DOMAIN s \ {"hydrated"} |-> s[f]]
  IN  Blob(Serialize([ version |-> SESSION_STATE_VERSION,
                       savedAt |-> ts,
                       state   |-> persistable ]))

\* the snapshot loadSessionSnapshot resolves to; ok = FALSE stands for null
loadSessionSnapshot(blob) ==
  IF blob.kind # "json" THEN [ok |-> FALSE]
  ELSE IF ~Has(blob.snapshot, "version") THEN [ok |-> FALSE]
  ELSE IF blob.snapshot.version # SESSION_STATE_VERSION THEN [ok |-> FALSE]
  ELSE [ok |-> TRUE, snapshot |-> blob.snapshot]

----------------------------------------------------------------------------
(* Snapshots an earlier run or another version left in the store: they     *)
(* pass the version check; their tabs may lack fields or carry history     *)
(* fields that do not fit.                                                 *)

\* the url of the tabs of an earlier run
OldUrl == "https://old"

RawTabBare(id) ==
  [ id |-> id, url |-> OldUrl, active |-> FALSE,
    assistantOpen |-> FALSE, lastActiveAt |-> 0 ]

RawTabWith(id, history, historyIndex) ==
  [ status |-> "normal", groupId |-> Null, chatHistory |-> << >>,
    history |-> history, historyIndex |-> historyIndex ] @@ RawTabBare(id)

TwoEntries == << [url |-> OldUrl], [url |-> DEFAULT_HOME_URL] >>

RawTabs ==
  { RawTabBare(DefaultTabId),
    RawTabWith(DefaultTabId, << >>, 0),
    RawTabWith(DefaultTabId, TwoEntries, 0),
    RawTabWith(DefaultTabId, TwoEntries, 5),
    RawTabWith(DefaultTabId, TwoEntries, -1) }

ForeignSnapshot(st) == [version |-> SESSION_STATE_VERSION, state |-> st]

\* one tab each, active
TabSnapshots ==
  { ForeignSnapshot([tabs |-> <<raw>>, activeTabId |-> DefaultTabId]) :
      raw \in RawTabs }

\* no tab at all; an activeTabId that names no tab, with a closed tab whose
\* history fields are missing
OddSnapshots ==
  { ForeignSnapshot([tabs |-> << >>, activeTabId |-> Null]),
    ForeignSnapshot(
      [ tabs |-> << RawTabBare(DefaultTabId) >>,
        activeTabId |-> UnknownTabId,
        recentlyClosed |->
          << [tab |-> toSnapshot(RawTabBare(OldTabId)), reason |-> "user"] >>,
        settings |-> [blockAds |-> FALSE] ]) }

ForeignSnapshots == TabSnapshots \cup OddSnapshots

\* a tab in a group that the snapshot does not hold
GroupSnapshots ==
  { ForeignSnapshot(
      [ tabs |-> << [RawTabWith(DefaultTabId, << [url |-> OldUrl] >>, 0)
                       EXCEPT !.groupId = "g1"] >>,
        activeTabId |-> DefaultTabId,
        tabGroups |-> {} ]) }

\* a group an earlier run made, next to the group of GroupIds
OldGroupId == "g-old"

\* a tab in one of two groups
TwoGroupSnapshots ==
  { ForeignSnapshot(
      [ tabs |-> << [RawTabWith(DefaultTabId, << [url |-> OldUrl] >>, 0)
                       EXCEPT !.groupId = groupId] >>,
        activeTabId |-> DefaultTabId,
        tabGroups |-> { [id |-> "g1", collapsed |-> FALSE],
                        [id |-> OldGroupId, collapsed |-> FALSE] } ]) :
      groupId \in {"g1", OldGroupId} }

\* an entry of recentlyClosed as an earlier run saved it
ClosedEntry ==
  [ tab      |-> toSnapshot(RawTabWith(OldTabId, << [url |-> OldUrl] >>, 0)),
    closedAt |-> 0,
    reason   |-> "user" ]

\* one tab and n closed tabs
ClosedSnapshot(n) ==
  ForeignSnapshot(
    [ tabs |-> << RawTabWith(DefaultTabId, << [url |-> OldUrl] >>, 0) >>,
      activeTabId |-> DefaultTabId,
      recentlyClosed |-> [i \in 1..n |-> ClosedEntry] ])

\* a full buffer of closed tabs, and one entry more than the reducer keeps
ClosedSnapshots ==
  { ClosedSnapshot(RECENTLY_CLOSED_LIMIT),
    ClosedSnapshot(RECENTLY_CLOSED_LIMIT + 1) }

\* the ids of the tabs an earlier run left open
OldTabPool == <<"tab-old-1", "tab-old-2", "tab-old-3", "tab-old-4">>
OldTabIds == { OldTabPool[i] : i \in 1..MaxOldTabs }

\* the store after a run that left MaxOldTabs tabs open, any one of them active
OldTabsBlobs ==
  { Blob(ForeignSnapshot(
      [ tabs |-> [i \in 1..MaxOldTabs |->
                   RawTabWith(OldTabPool[i], << [url |-> OldUrl] >>, 0)],
        activeTabId |-> id ])) : id \in OldTabIds }

\* what the store may hold when the program starts: no JSON, JSON of no
\* object, a snapshot of another version or of none, and snapshots of
\* version 1 without state, without tabs, with a closed entry that holds no
\* tab, without tabs in the list, with settings in part, and a complete one
StartupBlobs ==
  { Garbage, Unreadable, Scalar,
    Blob([ version |-> SESSION_STATE_VERSION + 1,
           state |-> [ tabs |-> << RawTabBare(DefaultTabId) >>,
                       activeTabId |-> DefaultTabId ] ]),
    Blob([ state |-> [ tabs |-> << RawTabBare(DefaultTabId) >>,
                       activeTabId |-> DefaultTabId ] ]),
    Blob([ version |-> SESSION_STATE_VERSION ]),
    Blob(ForeignSnapshot([ activeTabId |-> DefaultTabId ])),
    Blob(ForeignSnapshot([ tabs |-> << RawTabBare(DefaultTabId) >>,
                           activeTabId |-> DefaultTabId,
                           recentlyClosed |-> << [reason |-> "user"] >> ])),
    Blob(ForeignSnapshot([ tabs |-> << RawTabBare(DefaultTabId) >>,
                           activeTabId |-> DefaultTabId ])) }
  \cup { Blob(snapshot) : snapshot \in OddSnapshots }

----------------------------------------------------------------------------
(* Payloads the model dispatches *)

TabOptions == [url : Urls, status : {"normal", "pinned"}, groupId : {Null}]
\* options that name a url only
UrlOptions == { [DefaultOptions EXCEPT !.url = u] : u \in Urls }

UrlPatches == { [url |-> u] : u \in Urls }
\* a patch without a url that carries history fields of its own
HistoryPatch == [historyIndex |-> 7, history |-> << >>]
Patches == UrlPatches \cup {HistoryPatch}
\* a patch that navigates, pins, groups and writes the chat in one
ContentsPatch ==
  [ url |-> "https://a", status |-> "pinned", groupId |-> "g1",
    chatHistory |-> << [role |-> "user", content |-> "hi"] >> ]
\* patches that carry history fields next to a field or a url of their own
OverridingPatches ==
  { [assistantOpen |-> TRUE] @@ HistoryPatch,
    [url |-> "https://a"] @@ HistoryPatch }

ChatMessages == { [role |-> "user", content |-> "hi"] }

IdLists == UNION { [1..n -> TabIds] : n \in 0..MaxReorderIds }
\* the two id lists of a TAB_REORDER, MaxReorderIds ids in all
IdListPairs ==
  { pair \in IdLists \X IdLists : Len(pair[1]) + Len(pair[2]) <= MaxReorderIds }

\* the suggestions of a full history: "sa", "sb", ...
SuggestionLetters ==
  << "a", "b", "c", "d", "e", "f", "g", "h", "i", "j", "k", "l",
     "m", "n", "o", "p", "q", "r", "t", "u", "v", "w", "x", "y" >>
FullSuggestions == [i \in 1..SUGGESTION_LIMIT |-> <<"s", SuggestionLetters[i]>>]

\* a session whose suggestion history an earlier run filled
SuggestionSnapshots ==
  { ForeignSnapshot(
      [ tabs |-> << RawTabWith(DefaultTabId, << [url |-> OldUrl] >>, 0) >>,
        activeTabId |-> DefaultTabId,
        suggestionHistory |-> FullSuggestions ]) }

\* "a", "A", " a ", "Ab", "Sa" (in the full history as "sa"), "sy" (the oldest
\* entry of the full history), " " and ""
SuggestionValues ==
  { <<"a">>, <<"A">>, <<" ", "a", " ">>, <<"A", "b">>, <<"S", "a">>,
    <<"s", "y">>, <<" ">>, << >> }

SettingsPayloads ==
  { [blockAds |-> FALSE], [permissionPolicy |-> [camera |-> "allow"]] }

\* partial updates: one top-level key, one permission, both, an empty policy
PolicyPayloads ==
  SettingsPayloads \cup
  { [blockAds |-> TRUE],
    [permissionPolicy |-> [microphone |-> "deny"]],
    [blockAds |-> TRUE, permissionPolicy |-> [camera |-> "ask"]],
    [permissionPolicy |-> [f \in {} |-> "ask"]] }

GroupPayloads == { [id |-> "g1"], [id |-> "g1", collapsed |-> TRUE] }

NoFields == [f \in {} |-> Null]

ReopenPayloads(entries) ==
  {NoFields} \cup { [entry |-> entries[i]] : i \in DOMAIN entries }

generateTabId == TabIdPool[tabSequence + 1]

TabIdsOf(tabs) == { tabs[i].id : i \in DOMAIN tabs }

----------------------------------------------------------------------------
(* The provider: useReducer and the save effect.  A dispatch runs the      *)
(* reducer; when it returns a new State object the component renders again *)
(* and the effect that depends on [state] runs: it saves once hydrated.    *)

Init ==
  /\ state = defaultState
  /\ tabSequence = 0
  /\ now = 0
  /\ store = NoBlob
  /\ sameRef = TRUE
  /\ saveIssued = FALSE
  /\ last = [type |-> "INIT", target |-> Null]
  /\ hydration = "loading"
  /\ bridge \in BOOLEAN
  /\ writes = << >>

\* a save effect without the test of hydrated
SaveEffect_BeforeHydration(r) == ~r.same

SaveEffect(r) == ~r.same /\ r.st.hydrated

\* The reducer runs and the save effect after it.  Through localStorage
\* the write is done when the effect returns; through the bridge the effect
\* returns with the write in flight.
Reduce(type, target, r) ==
  /\ state' = r.st
  /\ sameRef' = r.same
  /\ saveIssued' = SaveEffect(r)
  /\ IF SaveEffect(r) /\ bridge
       THEN /\ Len(writes) < MaxWrites
            /\ writes' = Append(writes, saveSessionSnapshot(r.st, now))
            /\ store' = store
       ELSE /\ writes' = writes
            /\ store' = IF SaveEffect(r) THEN saveSessionSnapshot(r.st, now)
                                         ELSE store
  /\ last' = [type |-> type, target |-> target]
  /\ now' = now
  /\ bridge' = bridge

\* a reducer that threw has taken the component tree down, and a provider
\* that was torn down has no component left: nothing is dispatched after that
Dispatch(type, target, r) ==
  /\ hydration \in {"loading", "done"}
  /\ Reduce(type, target, r)

Fits(r) ==
  /\ Len(r.st.tabs) <= MaxTabs
  /\ \A i \in DOMAIN r.st.tabs :
       /\ Len(r.st.tabs[i].history) <= MaxHistory
       /\ Len(r.st.tabs[i].chatHistory) <= MaxChat

AddTab(optionSet, makeActiveSet) ==
  /\ tabSequence < MaxTabSequence
  /\ \E options \in optionSet, makeActive \in makeActiveSet :
       LET id == generateTabId
           tab == createBlankTab(id, options, now)
           r == TabAdd(state, tab, makeActive, now)
       IN  Fits(r) /\ Dispatch("TAB_ADD", id, r)
  /\ tabSequence' = tabSequence + 1
  /\ UNCHANGED hydration

CloseTab(tabIds) ==
  /\ \E tabId \in tabIds :
       Dispatch("TAB_CLOSE", tabId, TabClose(state, tabId, "user", now))
  /\ UNCHANGED <<tabSequence, hydration>>

SetActiveTab ==
  /\ \E tabId \in TabIds :
       Dispatch("TAB_SET_ACTIVE", tabId, TabSetActive(state, tabId, now))
  /\ UNCHANGED <<tabSequence, hydration>>

PatchTab(patches) ==
  /\ \E tabId \in TabIds, patch \in patches :
       LET r == TabPatch(state, tabId, patch)
       IN  Fits(r) /\ Dispatch("TAB_PATCH", tabId, r)
  /\ UNCHANGED <<tabSequence, hydration>>

SetAssistantOpen ==
  /\ \E tabId \in TabIds, open \in BOOLEAN :
       Dispatch("TAB_SET_ASSISTANT", tabId, TabSetAssistant(state, tabId, open))
  /\ UNCHANGED <<tabSequence, hydration>>

AppendChatMessage ==
  /\ \E tabId \in TabIds, message \in ChatMessages :
       LET r == TabAppendChat(state, tabId, message)
       IN  Fits(r) /\ Dispatch("TAB_APPEND_CHAT", tabId, r)
  /\ UNCHANGED <<tabSequence, hydration>>

SetStatus(statuses) ==
  /\ \E tabId \in TabIds, status \in statuses :
       Dispatch("TAB_SET_STATUS", tabId, TabSetStatus(state, tabId, status))
  /\ UNCHANGED <<tabSequence, hydration>>

AssignGroup(groupIds) ==
  /\ \E tabId \in TabIds, groupId \in groupIds \cup {Null} :
       Dispatch("TAB_ASSIGN_GROUP", tabId, TabAssignGroup(state, tabId, groupId))
  /\ UNCHANGED <<tabSequence, hydration>>

ReorderTabs ==
  /\ \E pair \in IdListPairs :
       LET r == TabReorder(state, pair[1], pair[2], now)
       IN  Fits(r) /\ Dispatch("TAB_REORDER", pair, r)
  /\ UNCHANGED <<tabSequence, hydration>>

ReopenRecentlyClosed ==
  /\ \E payload \in ReopenPayloads(state.recentlyClosed) :
       LET r == TabReopen(state, payload, now)
       IN  Fits(r) /\ Dispatch("TAB_REOPEN", payload, r)
  /\ UNCHANGED <<tabSequence, hydration>>

RecordSuggestion ==
  /\ \E value \in SuggestionValues :
       Dispatch("SUGGESTION_ADD", value, SuggestionAdd(state, value))
  /\ UNCHANGED <<tabSequence, hydration>>

\* the snapshots a load of the store resolves to (none when it resolves to null)
Loaded == { loadSessionSnapshot(b).snapshot :
              b \in { c \in {store} : loadSessionSnapshot(c).ok } }

Rehydrate(snapshots) ==
  /\ \E payload \in snapshots :
       LET r == SessionRehydrate(state, payload, now)
           source == IF payload \in Loaded THEN "store" ELSE "foreign"
       IN  Fits(r) /\ Dispatch("SESSION_REHYDRATE", source, r)
  /\ UNCHANGED <<tabSequence, hydration>>

Ready ==
  /\ Dispatch("SESSION_READY", Null, SessionReady(state))
  /\ UNCHANGED <<tabSequence, hydration>>

UpdateSettings(payloads) ==
  /\ \E payload \in payloads :
       Dispatch("SESSION_UPDATE_SETTINGS", payload,
                SessionUpdateSettings(state, payload))
  /\ UNCHANGED <<tabSequence, hydration>>

UpsertGroup ==
  /\ \E payload \in GroupPayloads :
       Dispatch("TAB_GROUP_UPSERT", payload.id, TabGroupUpsert(state, payload))
  /\ UNCHANGED <<tabSequence, hydration>>

DeleteGroup(groupIds) ==
  /\ \E groupId \in groupIds :
       Dispatch("TAB_GROUP_DELETE", groupId, TabGroupDelete(state, groupId))
  /\ UNCHANGED <<tabSequence, hydration>>

ToggleGroupCollapse ==
  /\ \E groupId \in GroupIds :
       Dispatch("TAB_GROUP_TOGGLE_COLLAPSE", groupId,
                TabGroupToggleCollapse(state, groupId))
  /\ UNCHANGED <<tabSequence, hydration>>

CloseAllTabs ==
  /\ tabSequence < MaxTabSequence
  /\ LET id == generateTabId
         newTab == [createBlankTab(id, DefaultOptions, now) EXCEPT !.active = TRUE]
     IN  Dispatch("TAB_CLOSE_ALL", id, TabCloseAll(state, newTab))
  /\ tabSequence' = tabSequence + 1
  /\ UNCHANGED hydration

\* a hydrate effect that does not look at its flag
Cancelled_Ignored == FALSE

\* the flag the cleanup of the hydrate effect sets
Cancelled == hydration = "cancelled"

\* the hydrate effect, once loadSessionSnapshot has resolved
Hydrate ==
  /\ hydration \in {"loading", "cancelled"}
  /\ LET loaded == loadSessionSnapshot(store)
         resolved == IF hydration = "cancelled" THEN "unmounted" ELSE "done" IN
       IF Cancelled
         THEN /\ hydration' = "unmounted"
              /\ UNCHANGED <<state, store, now, sameRef, saveIssued, last,
                             bridge, writes>>
       ELSE IF ~loaded.ok
         THEN /\ Reduce("SESSION_READY", Null, SessionReady(state))
              /\ hydration' = resolved
       ELSE IF RehydrateThrows(loaded.snapshot)
         THEN /\ hydration' = "failed"
              /\ last' = [type |-> "SESSION_REHYDRATE", target |-> "store"]
              /\ sameRef' = TRUE
              /\ saveIssued' = FALSE
              /\ UNCHANGED <<state, store, now, bridge, writes>>
       ELSE /\ Reduce("SESSION_REHYDRATE", "store",
                      SessionRehydrate(state, loaded.snapshot, now))
            /\ hydration' = resolved
  /\ UNCHANGED tabSequence

\* the provider is unmounted: the cleanup of the hydrate effect runs
Teardown ==
  /\ hydration \in {"loading", "done"}
  /\ hydration' = IF hydration = "loading" THEN "cancelled" ELSE "unmounted"
  /\ UNCHANGED <<state, tabSequence, now, store, sameRef, saveIssued, last,
                 bridge, writes>>

\* The fs.writeFile of one write in flight completes: the file holds what
\* that call was given.  The handler of session:write awaits nothing but
\* its own write, so the calls complete in any order.
WriteCompletes ==
  /\ \E i \in DOMAIN writes :
       /\ store' = writes[i]
       /\ writes' = SubSeq(writes, 1, i - 1) \o SubSeq(writes, i + 1, Len(writes))
  /\ UNCHANGED <<state, tabSequence, now, sameRef, saveIssued, last, hydration,
                 bridge>>

\* The program is closed and started again: the provider mounts with
\* defaultState and the load begins.  The store holds what the last save
\* left there, or what another installation did.  generateTabId puts
\* Date.now() into the id, so the ids of the new run differ from those of
\* the runs before: the pool of ids is not rewound.  A write still in
\* flight when the program is closed is lost with the main process.
Restart(blobs) ==
  /\ \E blob \in blobs \cup {store} : store' = blob
  /\ state' = defaultState
  /\ hydration' = "loading"
  /\ sameRef' = TRUE
  /\ saveIssued' = FALSE
  /\ last' = [type |-> "INIT", target |-> Null]
  /\ writes' = << >>
  /\ UNCHANGED <<tabSequence, now, bridge>>

\* Date.now() moves on between two dispatches
Tick ==
  /\ now < MaxNow
  /\ now' = now + 1
  /\ UNCHANGED <<state, tabSequence, store, sameRef, saveIssued, last, hydration,
                 bridge, writes>>

----------------------------------------------------------------------------
(* Specifications.  Next is the whole reducer.  The other specifications   *)
(* take the actions and payloads of one concern each, so that every one of *)
(* them can be explored exhaustively; each behaviour of theirs is a        *)
(* behaviour of Spec.  Those that start from InitLocalStorage take the    *)
(* transport whose write is done when the save effect returns.             *)

Next ==
  \/ AddTab(TabOptions, BOOLEAN) \/ CloseTab(TabIds) \/ SetActiveTab
  \/ PatchTab(Patches) \/ SetAssistantOpen \/ AppendChatMessage
  \/ SetStatus(TabStatus) \/ AssignGroup(GroupIds) \/ ReorderTabs
  \/ ReopenRecentlyClosed \/ RecordSuggestion
  \/ Rehydrate(ForeignSnapshots \cup Loaded) \/ Ready
  \/ UpdateSettings(PolicyPayloads) \/ UpsertGroup \/ DeleteGroup(GroupIds)
  \/ ToggleGroupCollapse \/ CloseAllTabs \/ Tick
  \/ Hydrate \/ Restart(StartupBlobs) \/ Teardown \/ WriteCompletes

Spec == Init /\ [][Next]_vars

\* the provider mounts where the gateway finds localStorage only, or where
\* it finds the session bridge
InitLocalStorage == Init /\ ~bridge
InitBridge == Init /\ bridge

\* which tabs exist and which one is active
NextStructure ==
  \/ AddTab({DefaultOptions}, BOOLEAN) \/ CloseTab(TabIds) \/ SetActiveTab
  \/ ReopenRecentlyClosed \/ Rehydrate(OddSnapshots \cup Loaded) \/ Ready
  \/ CloseAllTabs

SpecStructure == InitLocalStorage /\ [][NextStructure]_vars

\* the order of the tabs
NextReorder ==
  \/ AddTab({DefaultOptions}, {TRUE}) \/ ReorderTabs \/ CloseTab(TabIds)
  \/ SetActiveTab

SpecReorder == InitLocalStorage /\ [][NextReorder]_vars

\* the navigation history of the tabs
NextHistory ==
  \/ AddTab(UrlOptions, {TRUE}) \/ PatchTab(Patches) \/ CloseTab(TabIds)
  \/ ReopenRecentlyClosed \/ Rehydrate(ForeignSnapshots \cup Loaded) \/ Ready
  \/ CloseAllTabs

SpecHistory == InitLocalStorage /\ [][NextHistory]_vars

\* what a restart keeps
NextRoundTrip ==
  \/ Ready \/ AddTab({DefaultOptions}, {TRUE}) \/ SetActiveTab
  \/ CloseTab(TabIds) \/ PatchTab(UrlPatches) \/ UpsertGroup
  \/ UpdateSettings(SettingsPayloads) \/ Rehydrate(Loaded) \/ Tick

SpecRoundTrip == InitLocalStorage /\ [][NextRoundTrip]_vars

\* the fields of a tab and the groups
NextFields ==
  \/ Ready \/ AddTab({DefaultOptions}, {TRUE}) \/ SetActiveTab
  \/ CloseTab({UnknownTabId}) \/ PatchTab({HistoryPatch}) \/ SetAssistantOpen
  \/ AppendChatMessage \/ SetStatus(TabStatus) \/ AssignGroup(GroupIds)
  \/ UpsertGroup \/ DeleteGroup(GroupIds) \/ ToggleGroupCollapse

SpecFields == InitLocalStorage /\ [][NextFields]_vars

\* the buffer of closed tabs
NextClosed ==
  \/ AddTab({DefaultOptions}, {TRUE}) \/ CloseTab(TabIds) \/ SetActiveTab
  \/ Rehydrate(ClosedSnapshots \cup Loaded) \/ Ready

SpecClosed == InitLocalStorage /\ [][NextClosed]_vars

\* the suggestion history
NextSuggest ==
  \/ RecordSuggestion \/ Rehydrate(SuggestionSnapshots \cup Loaded) \/ Ready

SpecSuggest == InitLocalStorage /\ [][NextSuggest]_vars

\* the groups and the tabs in them
NextGroups ==
  \/ AddTab({DefaultOptions}, {TRUE}) \/ AssignGroup(GroupIds) \/ UpsertGroup
  \/ DeleteGroup(GroupIds) \/ CloseTab(TabIds) \/ ReopenRecentlyClosed
  \/ Rehydrate(GroupSnapshots \cup Loaded) \/ Ready

SpecGroups == InitLocalStorage /\ [][NextGroups]_vars

\* the start of the program
NextStartup ==
  \/ Restart(StartupBlobs) \/ Hydrate \/ AddTab({DefaultOptions}, {TRUE})
  \/ CloseTab(TabIds) \/ SetActiveTab

SpecStartup == InitLocalStorage /\ [][NextStartup]_vars

\* loadSessionSnapshot resolves in every branch (the read handler of the
\* main process returns on success and on failure, and the gateway catches
\* what is thrown), so the continuation of the hydrate effect always runs
SpecStartupFair == SpecStartup /\ WF_vars(Hydrate)

\* the settings
NextSettings ==
  \/ UpdateSettings(PolicyPayloads) \/ AddTab({DefaultOptions}, {TRUE})
  \/ Rehydrate(OddSnapshots \cup Loaded) \/ Ready

SpecSettings == InitLocalStorage /\ [][NextSettings]_vars

\* the saves through the bridge and the order their writes complete in
NextSaves ==
  \/ Ready \/ AddTab({DefaultOptions}, {TRUE}) \/ SetActiveTab
  \/ CloseTab(TabIds) \/ WriteCompletes \/ Tick

SpecSaves == InitBridge /\ [][NextSaves]_vars

\* a provider that is torn down, before the load resolves or after
NextTeardown ==
  \/ Restart(StartupBlobs) \/ Hydrate \/ Teardown
  \/ AddTab({DefaultOptions}, {TRUE}) \/ SetActiveTab

SpecTeardown == InitLocalStorage /\ [][NextTeardown]_vars

\* the order of the tabs and their status
NextPinning ==
  \/ AddTab({DefaultOptions}, {TRUE}) \/ SetStatus(TabStatus) \/ ReorderTabs

SpecPinning == InitLocalStorage /\ [][NextPinning]_vars

\* two groups, their members, and the actions that empty a group
NextGroupFrame ==
  \/ AddTab({DefaultOptions}, {TRUE}) \/ AssignGroup(GroupIds \cup {OldGroupId})
  \/ UpsertGroup \/ DeleteGroup(GroupIds \cup {OldGroupId})
  \/ CloseTab(TabIds) \/ CloseAllTabs
  \/ Rehydrate(TwoGroupSnapshots \cup GroupSnapshots) \/ Ready

SpecGroupFrame == InitLocalStorage /\ [][NextGroupFrame]_vars

\* the tabs of this run alone: none comes from a snapshot
NextNative ==
  \/ Ready \/ AddTab({DefaultOptions}, {TRUE})
  \/ PatchTab(UrlPatches \cup OverridingPatches) \/ CloseTab(TabIds)
  \/ ReopenRecentlyClosed \/ CloseAllTabs

SpecNative == InitLocalStorage /\ [][NextNative]_vars

\* a tab is closed and opened again with what it held
NextCloseReopen ==
  \/ AddTab({DefaultOptions}, {TRUE}) \/ PatchTab({ContentsPatch})
  \/ SetStatus({"sleeping"}) \/ CloseTab(TabIds) \/ ReopenRecentlyClosed

SpecCloseReopen == InitLocalStorage /\ [][NextCloseReopen]_vars

\* all tabs closed at once, with closed tabs, groups, suggestions and
\* settings in the State
NextCloseAll ==
  \/ AddTab({DefaultOptions}, {TRUE}) \/ CloseTab(TabIds) \/ CloseAllTabs
  \/ ReopenRecentlyClosed \/ UpsertGroup \/ UpdateSettings(SettingsPayloads)
  \/ Rehydrate(SuggestionSnapshots) \/ Ready

SpecCloseAll == InitLocalStorage /\ [][NextCloseAll]_vars

\* closing the tabs an earlier run left open
NextCloseOld ==
  \/ Restart(OldTabsBlobs) \/ Hydrate \/ CloseTab(OldTabIds \cup {UnknownTabId})
  \/ ReopenRecentlyClosed

SpecCloseOld == InitLocalStorage /\ [][NextCloseOld]_vars

----------------------------------------------------------------------------
(* Properties *)

\* the step is a dispatch of an action of one of the types; Tick is the one
\* step that is no dispatch, and the one step that moves the clock
Dispatched(types) == last'.type \in types /\ now' = now

ActiveTabs(s) == { i \in DOMAIN s.tabs : s.tabs[i].active }

\* C1: whenever activeTabId is not null, exactly one tab is active and it is
\* the tab activeTabId names.
C1_ExactlyOneActive ==
  state.activeTabId # Null =>
    /\ Cardinality(ActiveTabs(state)) = 1
    /\ \A i \in ActiveTabs(state) : state.tabs[i].id = state.activeTabId

\* C2: the session always holds at least one tab.
C2_TabsNonEmpty == Len(state.tabs) >= 1

\* C3: every tab has a history entry and a historyIndex that names one.
C3_HistoryIndexInRange ==
  \A i \in DOMAIN state.tabs :
    /\ Len(state.tabs[i].history) >= 1
    /\ 0 <= state.tabs[i].historyIndex
    /\ state.tabs[i].historyIndex < Len(state.tabs[i].history)

\* a tab rehydrated from a snapshot whose historyIndex was out of range
C3_Witness ==
  /\ last.type = "SESSION_REHYDRATE"
  /\ \E i \in DOMAIN state.tabs :
       /\ state.tabs[i].url = OldUrl
       /\ state.tabs[i].history = TwoEntries
       /\ state.tabs[i].historyIndex = 1

\* C4: no two tabs share an id.
C4_UniqueTabIds ==
  \A i, j \in DOMAIN state.tabs :
    i # j => state.tabs[i].id # state.tabs[j].id

TabTargeted ==
  { "TAB_SET_ACTIVE", "TAB_PATCH", "TAB_SET_ASSISTANT", "TAB_SET_STATUS",
    "TAB_ASSIGN_GROUP", "TAB_APPEND_CHAT", "TAB_CLOSE" }
GroupTargeted == { "TAB_GROUP_DELETE", "TAB_GROUP_TOGGLE_COLLAPSE" }
GroupIdsOf(groups) == { g.id : g \in groups }

\* C5: SET_ASSISTANT, SET_STATUS and ASSIGN_GROUP of the value the target tab
\* has already (the tabs come out unchanged) return the State object given.
C5_UnchangedValueSameRef ==
  [][ Dispatched({"TAB_SET_ASSISTANT", "TAB_SET_STATUS", "TAB_ASSIGN_GROUP"})
      /\ last'.target \in TabIdsOf(state.tabs)
      /\ state'.tabs = state.tabs
      => sameRef' ]_vars

\* C6: an action whose tab id names no tab, or whose group id names no group,
\* returns the State object it was given, unchanged.
C6_AbsentTargetSameRef ==
  [][ \/ (Dispatched(TabTargeted) /\ last'.target \notin TabIdsOf(state.tabs))
      \/ (Dispatched(GroupTargeted)
            /\ last'.target \notin GroupIdsOf(state.tabGroups))
      => sameRef' /\ state' = state ]_vars

\* the actions the reducer has nothing to do for: an id that names no tab or
\* no group, a value the tab has already, the tab that is active already
NoEffectStep ==
  \/ (Dispatched(TabTargeted) /\ last'.target \notin TabIdsOf(state.tabs))
  \/ (Dispatched(GroupTargeted)
        /\ last'.target \notin GroupIdsOf(state.tabGroups))
  \/ (Dispatched({"TAB_SET_ASSISTANT", "TAB_SET_STATUS", "TAB_ASSIGN_GROUP"})
        /\ last'.target \in TabIdsOf(state.tabs)
        /\ state'.tabs = state.tabs)
  \/ (Dispatched({"TAB_SET_ACTIVE"}) /\ last'.target = state.activeTabId)

\* C7: once hydrated, a save is issued only for a new State object, and an
\* action the reducer has nothing to do for issues none.
C7_NoSaveOnNoEffect ==
  [][ /\ (saveIssued' => ~sameRef')
      /\ (state.hydrated /\ NoEffectStep => ~saveIssued') ]_vars

\* C8: a SET_ACTIVE of the id the previous SET_ACTIVE named, of the active
\* tab's id or of an id no tab has returns the State object it was given.
C8_SetActiveIdempotent ==
  [][ Dispatched({"TAB_SET_ACTIVE"})
      /\ \/ (last.type = "TAB_SET_ACTIVE" /\ last.target = last'.target)
         \/ last'.target = state.activeTabId
         \/ last'.target \notin TabIdsOf(state.tabs)
      => sameRef' /\ state' = state ]_vars

\* a SET_ACTIVE of the id that is active already, with another tab to switch to
C8_Witness ==
  /\ last.type = "TAB_SET_ACTIVE"
  /\ last.target = state.activeTabId
  /\ sameRef
  /\ Cardinality(TabIdsOf(state.tabs)) >= 2

StripRefs(entries) ==
  Map(LAMBDA entry : [f \in DOMAIN entry \ {"ref"} |-> entry[f]], entries)

\* a Rehydrate of the snapshot the last save wrote, which is that of the
\* State it is applied to
RoundTripStep ==
  /\ Dispatched({"SESSION_REHYDRATE"})
  /\ last'.target = "store"
  /\ store.kind = "json"
  /\ store = saveSessionSnapshot(state, store.snapshot.savedAt)

\* C9 as claimed: the round trip gives back tabs, tabGroups, settings and
\* recentlyClosed field for field.
C9_RoundTripExact ==
  [][ RoundTripStep =>
        /\ state'.tabs = state.tabs
        /\ state'.tabGroups = state.tabGroups
        /\ state'.settings = state.settings
        /\ StripRefs(state'.recentlyClosed) = StripRefs(state.recentlyClosed)
        /\ state'.hydrated ]_vars

\* C9 amended: the round trip gives back tabGroups, settings, recentlyClosed,
\* suggestionHistory and activeTabId, and the tabs in every field but active
\* and lastActiveAt: the tab activeTabId names comes out active and stamped
\* with the time of the Rehydrate, every other tab inactive with its stamp.
C9_RoundTripUpToActivation ==
  [][ RoundTripStep =>
        /\ Len(state'.tabs) = Len(state.tabs)
        /\ \A i \in DOMAIN state.tabs :
             LET a == state.tabs[i]
                 b == state'.tabs[i]
             IN  /\ DOMAIN b = DOMAIN a
                 /\ \A f \in DOMAIN a \ {"active", "lastActiveAt"} : b[f] = a[f]
                 /\ b.active = (a.id = state.activeTabId)
                 /\ b.lastActiveAt = IF a.id = state.activeTabId THEN now
                                     ELSE a.lastActiveAt
        /\ state'.tabGroups = state.tabGroups
        /\ state'.settings = state.settings
        /\ StripRefs(state'.recentlyClosed) = StripRefs(state.recentlyClosed)
        /\ state'.suggestionHistory = state.suggestionHistory
        /\ state'.activeTabId = state.activeTabId
        /\ state'.hydrated ]_vars

\* a State rehydrated from its own snapshot at a later time: two tabs, the
\* active one stamped now, the other one earlier, a closed tab, a group
C9_Witness ==
  /\ last.type = "SESSION_REHYDRATE"
  /\ last.target = "store"
  /\ now >= 1
  /\ Len(state.tabs) = 2
  /\ \E i, j \in DOMAIN state.tabs :
       /\ state.tabs[i].active /\ state.tabs[i].lastActiveAt = now
       /\ ~state.tabs[j].active /\ state.tabs[j].lastActiveAt < now
  /\ Len(state.recentlyClosed) >= 1
  /\ state.tabGroups # {}

\* C10: a TAB_CLOSE on a State with exactly one tab returns that State object.
C10_LastTabCloseRefused ==
  [][ Dispatched({"TAB_CLOSE"}) /\ Len(state.tabs) = 1
      => sameRef' /\ state' = state ]_vars

\* a TAB_CLOSE of the only tab, refused
C10_Witness ==
  /\ last.type = "TAB_CLOSE"
  /\ Len(state.tabs) = 1
  /\ last.target = state.tabs[1].id
  /\ sameRef

\* C11: recentlyClosed never holds more than 15 entries; a TAB_CLOSE that is
\* accepted puts the entry of the closed tab at index 0, in front of the
\* entries held before, of which the oldest is dropped when there were 15.
C11_ClosedBufferBounded ==
  [][ /\ Len(state'.recentlyClosed) <= RECENTLY_CLOSED_LIMIT
      /\ Dispatched({"TAB_CLOSE"}) /\ ~sameRef' =>
            /\ state'.recentlyClosed[1].tab.id = last'.target
            /\ StripRefs(Tail(state'.recentlyClosed)) =
                 StripRefs(Slice0(state.recentlyClosed,
                                  RECENTLY_CLOSED_LIMIT - 1)) ]_vars

C13_PinnedFirst ==
  \A i, j \in DOMAIN state.tabs :
    state.tabs[i].status = "pinned" /\ state.tabs[j].status # "pinned" => i < j

EqualIgnoringCase(v, w) == ToLowerCase(v) = ToLowerCase(w)
Blank(v) == \A i \in DOMAIN v : v[i] = " "

\* C14: suggestionHistory never holds more than 24 entries nor two entries
\* that are equal ignoring case; a SUGGESTION_ADD of a blank value returns the
\* State object it was given; one of a non-blank value v puts trim(v) at
\* index 0, in front of the entries held before that differ from it ignoring
\* case, cut to 24 in all.
C14_SuggestionsBoundedDeduped ==
  [][ /\ Len(state'.suggestionHistory) <= SUGGESTION_LIMIT
      /\ \A i, j \in DOMAIN state'.suggestionHistory :
           i # j => ~EqualIgnoringCase(state'.suggestionHistory[i],
                                       state'.suggestionHistory[j])
      /\ Dispatched({"SUGGESTION_ADD"}) =>
           IF Blank(last'.target) THEN sameRef' /\ state' = state
           ELSE /\ ~Blank(state'.suggestionHistory[1])
                /\ Head(state'.suggestionHistory[1]) # " "
                /\ state'.suggestionHistory[1][Len(state'.suggestionHistory[1])] # " "
                /\ \E pre, post \in 0..Len(last'.target) :
                     /\ last'.target =
                          [i \in 1..pre |-> " "]
                            \o state'.suggestionHistory[1]
                            \o [i \in 1..post |-> " "]
                /\ Tail(state'.suggestionHistory) =
                     Slice0(SelectSeq(state.suggestionHistory,
                                      LAMBDA w : ~EqualIgnoringCase(
                                                    w, state'.suggestionHistory[1])),
                            SUGGESTION_LIMIT - 1) ]_vars

\* "Sa" added to a full history that held "sa": it stands in front, "sa" is
\* gone and no other entry was dropped
C14_Witness ==
  /\ last.type = "SUGGESTION_ADD"
  /\ ~sameRef
  /\ Len(state.suggestionHistory) = SUGGESTION_LIMIT
  /\ state.suggestionHistory[1] = <<"S", "a">>
  /\ Tail(state.suggestionHistory) = Tail(FullSuggestions)

\* C15: a SESSION_UPDATE_SETTINGS changes the permissions its payload names
\* and the top-level settings its payload names, to the values of the payload;
\* every other permission and every other top-level setting stay as they
\* were, and so does the whole policy when the payload names no policy.
C15_SettingsMergeOneLevelDeep ==
  [][ Dispatched({"SESSION_UPDATE_SETTINGS"}) =>
        LET payload == last'.target
            old == state.settings
            new == state'.settings
            given == IF Has(payload, "permissionPolicy")
                       THEN DOMAIN payload.permissionPolicy ELSE {}
        IN  /\ DOMAIN new = DOMAIN old
            /\ DOMAIN new.permissionPolicy = DOMAIN old.permissionPolicy
            /\ \A k \in DOMAIN old.permissionPolicy :
                 new.permissionPolicy[k] =
                   IF k \in given THEN payload.permissionPolicy[k]
                   ELSE old.permissionPolicy[k]
            /\ \A k \in DOMAIN old \ {"permissionPolicy"} :
                 new[k] = IF k \in DOMAIN payload THEN payload[k] ELSE old[k]
            /\ \A f \in DOMAIN state \ {"settings"} : state'[f] = state[f] ]_vars

\* the microphone permission set after the camera permission and a top-level
\* setting were: all three changes stand
C15_Witness ==
  /\ last.type = "SESSION_UPDATE_SETTINGS"
  /\ last.target = [permissionPolicy |-> [microphone |-> "deny"]]
  /\ state.settings.permissionPolicy = [camera |-> "allow", microphone |-> "deny"]
  /\ state.settings.blockAds = FALSE

\* C16: after a SESSION_REHYDRATE and after a TAB_REOPEN that restores a tab,
\* the groupId of every tab is null or the id of a group in tabGroups.
C16_NoDanglingGroupId ==
  [][ Dispatched({"SESSION_REHYDRATE", "TAB_REOPEN"}) /\ ~sameRef' =>
        \A i \in DOMAIN state'.tabs :
          \/ state'.tabs[i].groupId = Null
          \/ state'.tabs[i].groupId \in GroupIdsOf(state'.tabGroups) ]_vars

\* the step in which the hydrate effect dispatches its action
HydrateStep == hydration = "loading" /\ hydration' # "loading"

\* C17: the hydrate effect dispatches SESSION_REHYDRATE if and only if the
\* store holds a snapshot whose version is 1; in every other case it
\* dispatches SESSION_READY and the State is the default State with
\* hydrated = true.
C17_VersionGate ==
  [][ HydrateStep =>
        IF /\ store.kind = "json"
           /\ Has(store.snapshot, "version")
           /\ store.snapshot.version = SESSION_STATE_VERSION
          THEN last'.type = "SESSION_REHYDRATE"
          ELSE /\ last'.type = "SESSION_READY"
               /\ state' = [defaultState EXCEPT !.hydrated = TRUE] ]_vars

\* C18: the start never ends in an exception, the State that comes out
\* hydrated holds at least one tab, and whatever the store holds a pending
\* load leads to hydrated = true.
C18_StartupEndsHydrated ==
  /\ [](hydration # "failed")
  /\ [](state.hydrated => Len(state.tabs) >= 1)
  /\ (hydration = "loading" ~> state.hydrated)

\* C19: a save is issued only for a State with hydrated = true, after the
\* hydrate effect has dispatched its action; while the load is pending no
\* dispatch changes what the store holds; and the snapshot a save writes has
\* no hydrated field.
C19_NoSaveBeforeHydration ==
  [][ /\ saveIssued' => state'.hydrated /\ hydration' = "done"
      /\ hydration' = "loading" /\ last'.type # "INIT" => store' = store
      /\ saveIssued' => /\ store'.kind = "json"
                        /\ ~Has(store'.snapshot.state, "hydrated") ]_vars

\* a tab added while the load of a stored snapshot is pending: nothing saved,
\* the snapshot still in the store
C19_Witness ==
  /\ hydration = "loading"
  /\ last.type = "TAB_ADD"
  /\ ~sameRef
  /\ ~saveIssued
  /\ Len(state.tabs) = 2
  /\ loadSessionSnapshot(store).ok

\* the actions of useSessionActions the start of the program can run into
FacadeTypes == TabTargeted \cup { "TAB_ADD", "TAB_REORDER", "TAB_REOPEN",
                                  "TAB_CLOSE_ALL", "SUGGESTION_ADD",
                                  "SESSION_UPDATE_SETTINGS", "TAB_GROUP_UPSERT" }
                           \cup GroupTargeted

\* C20: no action of the facade is applied while the load is pending.
C20_StartupActionFirst ==
  [][ hydration = "loading" => ~Dispatched(FacadeTypes) ]_vars


\* C21: once no write is in flight, the store holds the snapshot of the
\* State the provider holds (the most recent one), whatever the order the
\* writes completed in.
C21_StoreHoldsLatestState ==
  (bridge /\ state.hydrated /\ writes = << >>)
    => \E savedAt \in 0..now : store = saveSessionSnapshot(state, savedAt)

\* the tabs TAB_CLOSE of tabId leaves
Remaining(s, tabId) == Filter(LAMBDA tab : tab.id # tabId, s.tabs)

\* the tab that sits at the index of the removed tab once it is removed,
\* the first remaining tab when there is none
RightNeighbourId(s, tabId) ==
  LET index == FindIndex(s.tabs, tabId)
      remaining == Remaining(s, tabId)
  IN  IF index + 1 <= Len(remaining) THEN remaining[index + 1].id
      ELSE remaining[1].id

\* the step closes the tab the action names
ClosedStep ==
  /\ Dispatched({"TAB_CLOSE"})
  /\ Len(state.tabs) >= 2
  /\ FindIndex(state.tabs, last'.target) # -1

\* C22: closing the active tab activates the tab that then sits at the index
\* of the removed tab, or the first remaining tab when there is none, and
\* that tab is the only active one; closing another tab leaves activeTabId
\* as it was.
C22_CloseActivatesRightNeighbour ==
  [][ClosedStep =>
       IF last'.target = state.activeTabId
         THEN /\ state'.activeTabId = RightNeighbourId(state, last'.target)
              /\ \A i \in DOMAIN state'.tabs :
                   state'.tabs[i].active <=> state'.tabs[i].id = state'.activeTabId
         ELSE state'.activeTabId = state.activeTabId]_vars

\* the ids of a list that name a tab, in the order of the list
KnownIds(s, ids) == Filter(LAMBDA id : id \in TabIdsOf(s.tabs), ids)

\* the ids of the tabs that neither list names, in the order of the tabs
LeftoverIds(s, pinnedIds, regularIds) ==
  Filter(LAMBDA id : ~Includes(pinnedIds, id) /\ ~Includes(regularIds, id),
         Map(LAMBDA tab : tab.id, s.tabs))

\* C23: TAB_REORDER yields the tabs pinnedIds names, then those regularIds
\* names, then the tabs neither names in their previous order; ids that name
\* no tab are dropped; the tabs taken from pinnedIds are pinned and those
\* taken from regularIds are normal, whatever their status was.
C23_ReorderOrderAndStatus ==
  [][Dispatched({"TAB_REORDER"}) =>
       LET pinned == KnownIds(state, last'.target[1])
           regular == KnownIds(state, last'.target[2])
           leftover == LeftoverIds(state, last'.target[1], last'.target[2])
       IN  /\ Map(LAMBDA tab : tab.id, state'.tabs) = pinned \o regular \o leftover
           /\ \A i \in 1..Len(pinned) : state'.tabs[i].status = "pinned"
           /\ \A i \in 1..Len(regular) :
                state'.tabs[Len(pinned) + i].status = "normal"]_vars

\* the tab is the one the closed entry holds, as it was when it was closed
\* but for the time of its last activation
Restores(tab, entry) ==
  \A f \in DOMAIN entry.tab \ {"lastActiveAt"} : tab[f] = entry.tab[f]

\* C24: TAB_REOPEN restores the entry of the payload, or recentlyClosed[0]
\* when the payload names none: the restored tab is appended to the tabs, it
\* is the only active tab and activeTabId is its id, and recentlyClosed loses
\* that entry and no other; with no entry at all the State object is
\* returned as it is.
C24_ReopenRestoresEntry ==
  [][Dispatched({"TAB_REOPEN"}) =>
       IF ~Has(last'.target, "entry") /\ state.recentlyClosed = << >>
         THEN sameRef' /\ state' = state
         ELSE
           LET entry == IF Has(last'.target, "entry") THEN last'.target.entry
                        ELSE state.recentlyClosed[1]
               n == Len(state'.tabs)
           IN  /\ n = Len(state.tabs) + 1
               /\ \A i \in DOMAIN state.tabs :
                    toSnapshot(state'.tabs[i]) = toSnapshot(state.tabs[i])
               /\ Restores(state'.tabs[n], entry)
               /\ ActiveTabs(state') = {n}
               /\ state'.activeTabId = state'.tabs[n].id
               /\ Len(state'.recentlyClosed) = Len(state.recentlyClosed) - 1
               /\ state'.recentlyClosed =
                    Filter(LAMBDA rc : rc # entry, state.recentlyClosed)]_vars

\* an entry that was not the newest one has been reopened
C24_Witness ==
  /\ last.type = "TAB_REOPEN"
  /\ Has(last.target, "entry")
  /\ state.recentlyClosed # << >>
  /\ state.recentlyClosed[1].ref > last.target.entry.ref
  /\ state.tabs[Len(state.tabs)].id = last.target.entry.tab.id
  /\ state.activeTabId = last.target.entry.tab.id

\* TAB_GROUP_DELETE of g takes g out of tabGroups and its members out of g,
\* and leaves every other group, every other tab and the rest of the State
GroupDeleteEffect ==
  Dispatched({"TAB_GROUP_DELETE"}) =>
    /\ state'.tabGroups = { g \in state.tabGroups : g.id # last'.target }
    /\ Len(state'.tabs) = Len(state.tabs)
    /\ \A i \in DOMAIN state.tabs :
         state'.tabs[i] = IF state.tabs[i].groupId = last'.target
                            THEN [state.tabs[i] EXCEPT !.groupId = Null]
                            ELSE state.tabs[i]
    /\ \A f \in DOMAIN state \ {"tabGroups", "tabs"} : state'[f] = state[f]

\* when the step is a dispatch of an action of another type than those,
\* every group is still there after it
GroupsKeptUnless(types) ==
  (now' = now /\ last'.type \notin types \cup {"INIT"})
    => GroupIdsOf(state.tabGroups) \subseteq GroupIdsOf(state'.tabGroups)

\* C25: TAB_GROUP_DELETE removes the group and ungroups its members and
\* nothing else, and no other action removes a group.
C25_OnlyDeleteRemovesGroup ==
  [][GroupDeleteEffect /\ GroupsKeptUnless({"TAB_GROUP_DELETE"})]_vars

\* C26: TAB_ADD appends the tab and keeps the existing tabs in their order;
\* either (makeActive) the new tab is the only active tab and activeTabId is
\* its id, or (not makeActive) activeTabId is as it was and the tab that was
\* active is still the active one.
C26_AddAppendsAndKeepsActive ==
  [][Dispatched({"TAB_ADD"}) =>
       LET n == Len(state'.tabs) IN
       /\ n = Len(state.tabs) + 1
       /\ state'.tabs[n].id = last'.target
       /\ \A i \in DOMAIN state.tabs : state'.tabs[i].id = state.tabs[i].id
       /\ \/ /\ ActiveTabs(state') = {n}
             /\ state'.activeTabId = last'.target
          \/ /\ state'.activeTabId = state.activeTabId
             /\ ActiveTabs(state') = ActiveTabs(state)]_vars

\* the provider has been torn down and not been mounted again
TornDown == hydration \in {"cancelled", "unmounted"}

\* C27: once the provider is torn down nothing is dispatched and the State
\* stays as it is, also when the load that was pending resolves: the hydrate
\* effect dispatches neither SESSION_REHYDRATE nor SESSION_READY then.
C27_TeardownCancelsLoad ==
  [][(TornDown /\ hydration' # "loading")
       => (state' = state /\ last' = last /\ store' = store)]_vars

\* a load that was pending at the teardown has resolved to a snapshot, and
\* the State is still the one the provider was mounted with
C27_Witness ==
  /\ hydration = "unmounted"
  /\ loadSessionSnapshot(store).ok
  /\ ~state.hydrated
  /\ last.type = "INIT"

\* C28: in a state reached through reducer actions other than
\* SESSION_REHYDRATE, with tabs built by createBlankTab, the historyIndex of
\* every tab is the index of its last history entry, whatever history fields
\* a patch carried.
C28_HistoryIndexAtTail ==
  \A i \in DOMAIN state.tabs :
    state.tabs[i].historyIndex = Len(state.tabs[i].history) - 1

\* a tab that has navigated was patched with history fields of the patch's own
C28_Witness ==
  /\ last.type = "TAB_PATCH"
  /\ \E i \in DOMAIN state.tabs :
       /\ state.tabs[i].id = last.target
       /\ state.tabs[i].assistantOpen
       /\ Len(state.tabs[i].history) = 2

\* what a tab holds besides its place and its activation
TabContents == {"url", "history", "historyIndex", "status", "groupId", "chatHistory"}

SameContents(a, b) == \A f \in TabContents : a[f] = b[f]

\* an accepted TAB_CLOSE takes the tab out of the tabs and puts what it held
\* at the head of recentlyClosed
CloseKeepsContents ==
  (Dispatched({"TAB_CLOSE"}) /\ ~sameRef')
    => /\ Len(state.tabs) >= 2
       /\ TabIdsOf(state'.tabs) = TabIdsOf(state.tabs) \ {last'.target}
       /\ state'.recentlyClosed[1].tab.id = last'.target
       /\ \E i \in DOMAIN state.tabs :
            /\ state.tabs[i].id = last'.target
            /\ SameContents(state'.recentlyClosed[1].tab, state.tabs[i])

\* a TAB_REOPEN without an entry right after an accepted TAB_CLOSE brings
\* the closed tab back, last and active, and takes it out of recentlyClosed
ReopenGivesBack ==
  ( /\ last.type = "TAB_CLOSE" /\ ~sameRef
    /\ Dispatched({"TAB_REOPEN"}) /\ ~Has(last'.target, "entry") )
    => LET n == Len(state'.tabs) IN
       /\ TabIdsOf(state'.tabs) = TabIdsOf(state.tabs) \cup {last.target}
       /\ state'.tabs[n].id = last.target
       /\ SameContents(state'.tabs[n], state.recentlyClosed[1].tab)
       /\ ActiveTabs(state') = {n}
       /\ state'.activeTabId = last.target
       /\ \A j \in DOMAIN state'.recentlyClosed :
            state'.recentlyClosed[j].tab.id # last.target

\* C29: an accepted TAB_CLOSE followed at once by a TAB_REOPEN without an
\* entry gives the same set of tab ids as before the close; the reopened tab
\* has the url, history, historyIndex, status, groupId and chatHistory it
\* had, is the last tab and the active one, and is no longer in
\* recentlyClosed.
C29_CloseThenReopen == [][CloseKeepsContents /\ ReopenGivesBack]_vars

\* a pinned tab in a group, with a chat and a history of two entries, has
\* been closed and opened again
C29_Witness ==
  /\ last.type = "TAB_REOPEN"
  /\ ~Has(last.target, "entry")
  /\ ~sameRef
  /\ Len(state.tabs) >= 2
  /\ LET tab == state.tabs[Len(state.tabs)] IN
       /\ tab.active
       /\ tab.status = "pinned"
       /\ tab.groupId = "g1"
       /\ Len(tab.history) = 2
       /\ tab.chatHistory # << >>

\* C30: TAB_CLOSE_ALL leaves the new tab as the only tab, activeTabId names
\* it, and recentlyClosed, tabGroups, suggestionHistory, settings and
\* hydrated are as they were: the removed tabs are not put into
\* recentlyClosed.
C30_CloseAllKeepsTheRest ==
  [][Dispatched({"TAB_CLOSE_ALL"}) =>
       /\ state'.tabs =
            << [createBlankTab(last'.target, DefaultOptions, now)
                  EXCEPT !.active = TRUE] >>
       /\ state'.activeTabId = last'.target
       /\ \A f \in {"recentlyClosed", "tabGroups", "suggestionHistory",
                     "settings", "hydrated"} : state'[f] = state[f]
       /\ \A i \in DOMAIN state.tabs :
            (\A j \in DOMAIN state.recentlyClosed :
               state.recentlyClosed[j].tab.id # state.tabs[i].id)
            => \A j \in DOMAIN state'.recentlyClosed :
                 state'.recentlyClosed[j].tab.id # state.tabs[i].id]_vars

\* all tabs were closed in a State that holds a closed tab, a group,
\* suggestions and settings of the user's own
C30_Witness ==
  /\ last.type = "TAB_CLOSE_ALL"
  /\ Len(state.tabs) = 1
  /\ state.tabs[1].id = last.target
  /\ state.recentlyClosed # << >>
  /\ state.tabGroups # {}
  /\ state.suggestionHistory # << >>
  /\ state.settings # defaultSettings
  /\ state.hydrated
====
